---- MODULE Spec2Model ----
(***************************************************************************)
(* Model of the CSP engine of constraintproblem.py: Problem,               *)
(* BacktrackingSolver and AllDifferentConstraint.                          *)
(*                                                                         *)
(* A domain is a Python list, so it is a sequence of values.  Lists are    *)
(* objects: two variables may hold the SAME list (addVariables registers   *)
(* one list under several identifiers, and deepcopy keeps that sharing).   *)
(* The store is therefore the pair (variables, alias): variables[v] is the *)
(* content of v's list and alias[v] names the list object, as the least    *)
(* identifier that holds it.  Dictionaries are iterated in ascending       *)
(* identifier order.                                                       *)
(***************************************************************************)
EXTENDS Integers, Sequences, FiniteSets, TLC

NVars == 3
MaxVal == 3
MaxConstraints == 1
MaxSolves == 2
MaxAdds == 1
NGridVars == 5
NBulkVars == 4
MaxBulkConstraints == 2

Vars == 1..NVars
Vals == 1..MaxVal

VARIABLES
    fc, mrv, dh,        \* Problem.fc / .mrv / .dh  (and the solver's copies)
    variables,          \* Problem.variables : identifier -> list content
    alias,              \* list-object identity of each variables[v]
    constraints,        \* Problem.constraints : sequence of const_vars lists
    var_constr_dict,    \* Problem.var_constr_dict
    splits,             \* Problem.splits
    pc,                 \* position of the control flow
    stack,              \* the active backtrack() calls, innermost last
    assigned,           \* the list update_domains returned to backtrack
    result,             \* what the last backtrack/getSolution call returned
    stats,              \* Statistics.splits of the last getSolution
    solution,           \* what the last finished getSolution gave its caller
    returned,           \* content of the returned dict when it was returned
    ret_live,           \* the returned dict is still Problem.variables
    ret_snap,           \* content of the returned dict once it is not
    solves,             \* number of getSolution calls made
    commits,            \* step-4d events of the current solve
    tried,              \* candidate values tried in the current solve
    adds,               \* addVariable calls made after the first solve
    prev,               \* outcome of the run before the problem was rebuilt
    input,              \* the problem as it was set up (store and alias)
    default_cons        \* the constraints whose const_vars is the dict Problem.variables

vars == <<fc, mrv, dh, variables, alias, constraints, var_constr_dict, splits,
          pc, stack, assigned, result, stats, returned, ret_live, ret_snap,
          solves, commits, tried, input, adds, prev,
          solution, default_cons>>

(***************************************************************************)
(* Python list and dict primitives                                         *)
(***************************************************************************)
Min(S) == CHOOSE x \in S : \A y \in S : x <= y

RECURSIVE SetToSeq(_)
SetToSeq(S) == IF S = {} THEN <<>>
               ELSE LET m == Min(S) IN <<m>> \o SetToSeq(S \ {m})

Contains(s, x) == \E i \in 1..Len(s) : s[i] = x

\* mutant: the list is cut at the first occurrence of x
ListRemove_cut(s, x) ==
    LET i == Min({j \in 1..Len(s) : s[j] = x})
    IN  SubSeq(s, 1, i - 1)

\* list.remove(x): drops the first occurrence of x
ListRemove(s, x) ==
    LET i == Min({j \in 1..Len(s) : s[j] = x})
    IN  SubSeq(s, 1, i - 1) \o SubSeq(s, i + 1, Len(s))

\* keys of a dict, in iteration order
Keys(store) == SetToSeq(DOMAIN store)

\* the identifiers that hold the same list object as v
Class(al, v) == {w \in DOMAIN al : al[w] = al[v]}

\* problem.variables[x] = [value]: x now holds a list of its own
Rebind(al, x) ==
    [v \in DOMAIN al |-> IF v = x THEN x ELSE Min(Class(al, v) \ {x})]

(***************************************************************************)
(* AllDifferentConstraint                                                  *)
(***************************************************************************)
\* mutant: the variable itself is not left out
getOthers_unfiltered(const_vars, variable) == const_vars

getOthers(const_vars, variable) ==
    SelectSeq(const_vars, LAMBDA item : item # variable)

\* mutant: the verdict is returned after the first other variable
check_first_only(store, const_vars, updated_var) ==
    LET others == getOthers(const_vars, updated_var)
    IN  \/ Len(others) = 0
        \/ ~(Len(store[others[1]]) = 1 /\ store[others[1]] = store[updated_var])

check(store, const_vars, updated_var) ==
    LET others == getOthers(const_vars, updated_var)
    IN  \A i \in 1..Len(others) :
            ~(Len(store[others[i]]) = 1 /\ store[others[i]] = store[updated_var])

(***************************************************************************)
(* Problem.mapVarToConstraints                                             *)
(***************************************************************************)
mapVarToConstraints(store, cons) ==
    [variable \in DOMAIN store |->
        SelectSeq(cons, LAMBDA c : Contains(c, variable))]

(***************************************************************************)
(* BacktrackingSolver.update_domains                                       *)
(***************************************************************************)
\* mutant: every variable that loses a value is put on the work-list
RECURSIVE ud_others_append_always(_, _, _, _, _)
ud_others_append_always(st, al, var1, other_vars, k) ==
    IF k > Len(other_vars) THEN st
    ELSE LET var2 == other_vars[k]
             d2 == st.variables[var2]
             assigned_value == st.variables[var1][1]
         IN  IF Len(d2) # 1 /\ Contains(d2, assigned_value)
             THEN LET nd == ListRemove(d2, assigned_value)
                      nv == [v \in DOMAIN st.variables |->
                                IF al[v] = al[var2] THEN nd ELSE st.variables[v]]
                  IN  ud_others_append_always(
                          [variables |-> nv, assigned |-> Append(st.assigned, var2)],
                          al, var1, other_vars, k + 1)
             ELSE ud_others_append_always(st, al, var1, other_vars, k + 1)

\* mutant: a variable that shrinks to one value is not put on the work-list
RECURSIVE ud_others_no_append(_, _, _, _, _)
ud_others_no_append(st, al, var1, other_vars, k) ==
    IF k > Len(other_vars) THEN st
    ELSE LET var2 == other_vars[k]
             d2 == st.variables[var2]
             assigned_value == st.variables[var1][1]
         IN  IF Len(d2) # 1 /\ Contains(d2, assigned_value)
             THEN LET nd == ListRemove(d2, assigned_value)
                      nv == [v \in DOMAIN st.variables |->
                                IF al[v] = al[var2] THEN nd ELSE st.variables[v]]
                  IN  ud_others_no_append([variables |-> nv, assigned |-> st.assigned],
                                          al, var1, other_vars, k + 1)
             ELSE ud_others_no_append(st, al, var1, other_vars, k + 1)

RECURSIVE ud_others(_, _, _, _, _)
ud_others(st, al, var1, other_vars, k) ==
    IF k > Len(other_vars) THEN st
    ELSE LET var2 == other_vars[k]
             d2 == st.variables[var2]
             assigned_value == st.variables[var1][1]
         IN  IF Len(d2) # 1 /\ Contains(d2, assigned_value)
             THEN LET nd == ListRemove(d2, assigned_value)
                      nv == [v \in DOMAIN st.variables |->
                                IF al[v] = al[var2] THEN nd ELSE st.variables[v]]
                      na == IF Len(nd) = 1 THEN Append(st.assigned, var2)
                                           ELSE st.assigned
                  IN  ud_others([variables |-> nv, assigned |-> na],
                                al, var1, other_vars, k + 1)
             ELSE ud_others(st, al, var1, other_vars, k + 1)

RECURSIVE ud_constraints(_, _, _, _, _)
ud_constraints(st, al, var1, myconstraints, j) ==
    IF j > Len(myconstraints) THEN st
    ELSE ud_constraints(
            ud_others(st, al, var1, getOthers(myconstraints[j], var1), 1),
            al, var1, myconstraints, j + 1)

\* mutant: only the first variable of the work-list is propagated
ud_assigned_first_only(st, al, vcd, i) ==
    IF i > Len(st.assigned) \/ i > 1 THEN st
    ELSE ud_constraints(st, al, st.assigned[i], vcd[st.assigned[i]], 1)

RECURSIVE ud_assigned(_, _, _, _)
ud_assigned(st, al, vcd, i) ==
    IF i > Len(st.assigned) THEN st
    ELSE ud_assigned(
            ud_constraints(st, al, st.assigned[i], vcd[st.assigned[i]], 1),
            al, vcd, i + 1)

Singletons(store) == SelectSeq(Keys(store), LAMBDA v : Len(store[v]) = 1)

update_domains(store, al, vcd, assigned0) ==
    ud_assigned([variables |-> store,
                 assigned  |-> IF Len(assigned0) = 0 THEN Singletons(store)
                                                     ELSE assigned0],
                al, vcd, 1)

(***************************************************************************)
(* BacktrackingSolver.check_assignment                                     *)
(***************************************************************************)
check_assignment(store, vcd, assigned0) ==
    \A i \in 1..Len(assigned0) :
        \A j \in 1..Len(vcd[assigned0[i]]) :
            check(store, vcd[assigned0[i]][j], assigned0[i])

(***************************************************************************)
(* Variable selection                                                      *)
(***************************************************************************)
\* mutant: a domain of two values counts as assigned
Unassigned_above_two(store) == SelectSeq(Keys(store), LAMBDA v : Len(store[v]) > 2)

Unassigned(store) == SelectSeq(Keys(store), LAMBDA v : Len(store[v]) > 1)

Range(s) == {s[i] : i \in 1..Len(s)}

\* pairs.sort(); pairs[0][1] for a list of (count, identifier) tuples
FirstSorted(pairs) ==
    LET first == CHOOSE p \in pairs : \A q \in pairs :
                     p[1] < q[1] \/ (p[1] = q[1] /\ p[2] <= q[2])
    IN  first[2]

\* mutant: the list of (size, identifier) pairs is not sorted
sort_mrv_unsorted(unassigned, store) == unassigned[1]

sort_mrv(unassigned, store) ==
    LET domain_order == {<<Len(store[v]), v>> : v \in Range(unassigned)}
    IN  FirstSorted(domain_order)

\* c_list of sort_dh: the distinct other variables of var's constraints
\* that are in the list sort_dh was given
c_list(var, unassigned, vcd) ==
    {other_var \in Range(unassigned) :
        \E j \in 1..Len(vcd[var]) :
            Contains(getOthers(vcd[var][j], var), other_var)}

sort_dh(unassigned, vcd) ==
    LET count_cvars == {<<Cardinality(c_list(var, unassigned, vcd)), var>> :
                           var \in Range(unassigned)}
    IN  FirstSorted(count_cvars)

sort_both(unassigned, store, vcd) ==
    LET domain_size == Min({Len(store[v]) : v \in
                               {w \in Range(unassigned) : Len(store[w]) >= 2}})
        mrvlist == SelectSeq(unassigned, LAMBDA v : Len(store[v]) = domain_size)
    IN  sort_dh(mrvlist, vcd)

select(u, store, vcd) ==
    IF mrv /\ ~dh THEN sort_mrv(u, store)
    ELSE IF ~mrv /\ dh THEN sort_dh(u, vcd)
    ELSE IF dh /\ mrv THEN sort_both(u, store, vcd)
    ELSE u[1]

(***************************************************************************)
(* Set-up: the problems a caller can build with addVariable, addVariables  *)
(* and addConstraint                                                       *)
(***************************************************************************)
\* the lists a caller passes to addVariable: any non-empty set of values
Doms == {SetToSeq(S) : S \in SUBSET Vals \ {{}}}

\* the lists the problems are set up with: a tail k..MaxVal of the range
Tails == {SetToSeq(k..MaxVal) : k \in Vals}

ConstraintLists == {SetToSeq(S) : S \in {T \in SUBSET Vars : Cardinality(T) >= 2}}

\* a list of constraints, in the order addConstraint was called
RECURSIVE ConsOf(_)
ConsOf(C) ==
    IF C = {} THEN <<>>
    ELSE LET c == CHOOSE x \in C : \A y \in C :
                      \/ Len(x) < Len(y)
                      \/ Len(x) = Len(y) /\ \A i \in 1..Len(x) :
                            (\A k \in 1..(i - 1) : x[k] = y[k]) => x[i] <= y[i]
         IN  <<c>> \o ConsOf(C \ {c})

ConstraintSeqs ==
    {ConsOf(C) : C \in {D \in SUBSET ConstraintLists :
                            Cardinality(D) <= MaxConstraints}}

\* every sharing of list objects addVariables can set up
Aliasings(store) ==
    {al \in [Vars -> Vars] :
        /\ \A v \in Vars : al[v] <= v /\ al[al[v]] = al[v]
        /\ \A v \in Vars : store[v] = store[al[v]]}

NoAlias(al) == \A v \in DOMAIN al : al[v] = v

\* a Problem right after it was set up: nothing solved yet
Fresh ==
    /\ var_constr_dict = [v \in DOMAIN variables |-> <<>>]
    /\ splits = 0
    /\ pc = "idle"
    /\ stack = <<>>
    /\ assigned = <<>>
    /\ result = "none"
    /\ stats = 0
    /\ returned = variables
    /\ ret_live = FALSE
    /\ ret_snap = variables
    /\ solves = 0
    /\ commits = 0
    /\ tried = 0
    /\ adds = 0
    /\ solution = "none"
    /\ prev = [solution |-> "none", returned |-> variables, splits |-> 0]
    /\ input = [variables |-> variables, alias |-> alias]
    /\ default_cons = {}

\* every problem over NVars variables with at most MaxConstraints constraints
\* and tails of the value range as domains, each variable registered with a
\* list of its own (addVariable)
InitSmall ==
    /\ fc \in BOOLEAN /\ mrv \in BOOLEAN /\ dh \in BOOLEAN
    /\ variables \in [Vars -> Tails]
    /\ alias = [v \in Vars |-> v]
    /\ constraints \in ConstraintSeqs
    /\ Fresh

\* the same problems, with variables registered one by one or several at a
\* time with one list (addVariables)
InitShared ==
    /\ fc \in BOOLEAN /\ mrv \in BOOLEAN /\ dh \in BOOLEAN
    /\ variables \in [Vars -> Tails]
    /\ alias \in Aliasings(variables)
    /\ constraints \in ConstraintSeqs
    /\ Fresh

\* a fixed network of three constraints, or its last ones, over NGridVars
\* cells: the first cell is open, the last one is given, and the cells
\* between them are set up with tails of the value range
GridVars == 1..NGridVars

GridNetwork == <<<<1, 5>>, <<1, 2, 3>>, <<2, 3, 4>>>>

GridConstraints ==
    {SubSeq(GridNetwork, k, Len(GridNetwork)) : k \in 1..(Len(GridNetwork) + 1)}

InitGrid ==
    /\ fc \in BOOLEAN /\ mrv \in BOOLEAN /\ dh \in BOOLEAN
    /\ variables \in {g \in [GridVars -> Tails] :
                         /\ g[1] = SetToSeq(Vals)
                         /\ g[NGridVars] = <<MaxVal>>}
    /\ alias = [v \in GridVars |-> v]
    /\ constraints \in GridConstraints
    /\ Fresh

\* problems over NBulkVars variables that are registered in blocks of
\* consecutive identifiers, each block with one addVariables call and so
\* with one list, under at most MaxBulkConstraints constraints
BulkVars == 1..NBulkVars

BulkConstraintSeqs ==
    {ConsOf(C) : C \in {D \in SUBSET {SetToSeq(S) : S \in
                                         {T \in SUBSET BulkVars : Cardinality(T) >= 2}} :
                            Cardinality(D) <= MaxBulkConstraints}}

\* alias[v] is the first identifier of v's block
BulkAliasings(store) ==
    {al \in [BulkVars -> BulkVars] :
        /\ \A v \in BulkVars : al[v] <= v /\ store[v] = store[al[v]]
        /\ \A v \in BulkVars : \A w \in al[v]..v : al[w] = al[v]}

InitBulk ==
    /\ fc \in BOOLEAN /\ mrv \in BOOLEAN /\ dh \in BOOLEAN
    /\ variables \in [BulkVars -> Tails]
    /\ alias \in BulkAliasings(variables)
    /\ constraints \in BulkConstraintSeqs
    /\ Fresh

\* a 2x2 square of cells 1 2 / 3 4 with the values 1 and 2: one cell is
\* given, and some of the rows and some of the columns are constraints
LatinCells == 1..4

LatinRows == <<<<1, 2>>, <<3, 4>>>>

LatinColumns == <<<<1, 3>>, <<2, 4>>>>

LatinStores ==
    {[c \in LatinCells |-> IF c = given THEN <<value>> ELSE <<1, 2>>] :
        given \in LatinCells, value \in {1, 2}}

LatinConstraints ==
    {SelectSeq(LatinRows \o LatinColumns, LAMBDA c : c \in C) :
        C \in {D \in SUBSET Range(LatinRows \o LatinColumns) :
                  /\ D \cap Range(LatinRows) # {}
                  /\ D \cap Range(LatinColumns) # {}}}

InitLatin ==
    /\ fc \in BOOLEAN /\ mrv \in BOOLEAN /\ dh \in BOOLEAN
    /\ variables \in LatinStores
    /\ alias = [c \in LatinCells |-> c]
    /\ constraints \in LatinConstraints
    /\ Fresh

Init == InitSmall \/ InitGrid \/ InitLatin

\* Problem(): no variable and no constraint yet
InitEmpty ==
    /\ fc \in BOOLEAN /\ mrv \in BOOLEAN /\ dh \in BOOLEAN
    /\ variables = <<>>
    /\ alias = <<>>
    /\ constraints = <<>>
    /\ Fresh

(***************************************************************************)
(* Problem.getSolution and BacktrackingSolver.getSolution, up to the call  *)
(* of backtrack                                                            *)
(***************************************************************************)
StartSolve ==
    LET vcd == mapVarToConstraints(variables, constraints)
        upd == update_domains(variables, alias, vcd, <<>>)
    IN  /\ var_constr_dict' = vcd
        /\ variables' = IF fc THEN upd.variables ELSE variables
        /\ pc' = "backtrack"
        /\ stack' = <<>>
        /\ assigned' = <<>>
        /\ solves' = solves + 1
        /\ commits' = 0
        /\ tried' = 0
        /\ UNCHANGED <<fc, mrv, dh, alias, constraints, splits, result, stats,
                       returned, ret_live, ret_snap, input, adds, prev,
                   solution, default_cons>>

getSolution ==
    /\ pc = "idle"
    /\ solves = 0
    /\ StartSolve

(***************************************************************************)
(* BacktrackingSolver.backtrack                                            *)
(***************************************************************************)
Top == stack[Len(stack)]

\* lines 138-165: entry of a backtrack call
backtrack ==
    /\ pc = "backtrack"
    /\ LET u == Unassigned(variables)
       IN  IF Len(u) = 0
           THEN /\ result' = "dict"
                /\ pc' = "return"
                /\ UNCHANGED stack
           ELSE LET unassigned == select(u, variables, var_constr_dict)
                IN  /\ stack' = Append(stack,
                          [unassigned     |-> unassigned,
                           copy_variables |-> variables,
                           copy_alias     |-> alias,
                           domain         |-> variables[unassigned],
                           idx            |-> 0,
                           att            |-> Class(alias, unassigned)])
                    /\ pc' = "loop"
                    /\ UNCHANGED result
    /\ UNCHANGED <<fc, mrv, dh, variables, alias, constraints, var_constr_dict,
                   splits, assigned, stats, returned, ret_live, ret_snap,
                   solves, commits, tried, input, adds, prev,
                   solution, default_cons>>

\* the list a frame iterates stays the object of the identifiers in att
Attach(frames, store, x) ==
    [k \in 1..Len(frames) |->
        LET a == frames[k].att \ {x}
        IN  [frames[k] EXCEPT
                !.att = a,
                !.domain = IF a = {} THEN @ ELSE store[Min(a)]]]

Detach(frames) ==
    [k \in 1..Len(frames) |-> [frames[k] EXCEPT !.att = {}]]

\* mutant: the snapshot is not put back
Restore_skipped(frame) ==
    /\ UNCHANGED <<variables, alias>>
    /\ ret_snap' = IF ret_live THEN variables ELSE ret_snap
    /\ ret_live' = FALSE
    /\ default_cons' = {}

\* problem.variables = deepcopy(copy_variables)
Restore(frame) ==
    /\ variables' = frame.copy_variables
    /\ alias' = frame.copy_alias
    /\ ret_snap' = IF ret_live THEN variables ELSE ret_snap
    /\ ret_live' = FALSE
    /\ default_cons' = {}

\* lines 166-170: the next candidate value is assigned and propagated
try_value ==
    /\ pc = "loop"
    /\ Top.idx < Len(Top.domain)
    /\ LET x == Top.unassigned
           value == Top.domain[Top.idx + 1]
           al == Rebind(alias, x)
           upd == update_domains([variables EXCEPT ![x] = <<value>>], al,
                                 var_constr_dict, <<x>>)
           frames == [stack EXCEPT ![Len(stack)].idx = @ + 1]
       IN  /\ variables' = upd.variables
           /\ alias' = al
           /\ assigned' = upd.assigned
           /\ stack' = Attach(frames, upd.variables, x)
    /\ tried' = tried + 1
    /\ pc' = "check"
    /\ UNCHANGED <<fc, mrv, dh, constraints, var_constr_dict, splits, result,
                   stats, returned, ret_live, ret_snap, solves, commits, input, adds, prev,
                   solution, default_cons>>

\* lines 171-173 and 176: the consistency check of the candidate
check_candidate ==
    /\ pc = "check"
    /\ IF check_assignment(variables, var_constr_dict, assigned)
       THEN /\ splits' = splits + 1
            /\ commits' = commits + 1
            /\ pc' = "backtrack"
            /\ UNCHANGED <<variables, alias, stack, ret_live, ret_snap, default_cons>>
       ELSE /\ Restore(Top)
            /\ stack' = Detach(stack)
            /\ pc' = "loop"
            /\ UNCHANGED <<splits, commits>>
    /\ UNCHANGED <<fc, mrv, dh, constraints, var_constr_dict, assigned, result,
                   stats, returned, solves, tried, input, adds, prev,
                   solution>>

\* mutant: the call that ran out of candidates does not leave its frame
exhausted_no_pop ==
    /\ pc = "loop"
    /\ Top.idx >= Len(Top.domain)
    /\ Restore(Top)
    /\ stack' = Detach(stack)
    /\ result' = "False"
    /\ pc' = "return"
    /\ UNCHANGED <<fc, mrv, dh, constraints, var_constr_dict, splits, assigned,
                   stats, returned, solves, commits, tried, input, adds, prev,
                   solution>>

\* lines 178-179: no candidate is left
exhausted ==
    /\ pc = "loop"
    /\ Top.idx >= Len(Top.domain)
    /\ Restore(Top)
    /\ stack' = Detach(SubSeq(stack, 1, Len(stack) - 1))
    /\ result' = "False"
    /\ pc' = "return"
    /\ UNCHANGED <<fc, mrv, dh, constraints, var_constr_dict, splits, assigned,
                   stats, returned, solves, commits, tried, input, adds, prev,
                   solution>>

\* lines 173-176: the recursive call returned to its caller's loop
after_recursion ==
    /\ pc = "return"
    /\ Len(stack) > 0
    /\ IF result = "dict"
       THEN /\ stack' = SubSeq(stack, 1, Len(stack) - 1)
            /\ pc' = "return"
            /\ UNCHANGED <<variables, alias, ret_live, ret_snap, default_cons>>
       ELSE /\ Restore(Top)
            /\ stack' = Detach(stack)
            /\ pc' = "loop"
    /\ UNCHANGED <<fc, mrv, dh, constraints, var_constr_dict, splits, assigned,
                   result, stats, returned, solves, commits, tried, input, adds, prev,
                   solution>>

\* what the caller sees in the dict the last getSolution returned
ReturnedView == IF ret_live THEN variables ELSE ret_snap

\* Problem.getSolution lines 95-98: the outermost backtrack returned
finish ==
    /\ pc = "return"
    /\ Len(stack) = 0
    /\ pc' = "idle"
    /\ stats' = splits
    /\ returned' = variables
    /\ ret_live' = (result = "dict")
    /\ ret_snap' = variables
    /\ solution' = result
    /\ UNCHANGED <<fc, mrv, dh, variables, alias, constraints, var_constr_dict,
                   splits, stack, assigned, result, solves, commits, tried,
                   input, adds, prev, default_cons>>


(***************************************************************************)
(* The caller, after a first getSolution has returned                     *)
(***************************************************************************)
\* Problem.getSolution called again on the same Problem
resolve ==
    /\ pc = "idle"
    /\ solves >= 1
    /\ solves < MaxSolves
    /\ StartSolve

\* Problem.addVariable(variable, domain) with a list of the caller's
addVariable ==
    /\ pc = "idle"
    /\ solves >= 1
    /\ solves < MaxSolves
    /\ adds < MaxAdds
    /\ \E variable \in DOMAIN variables, domain \in Doms :
        /\ variables' = [variables EXCEPT ![variable] = domain]
        /\ alias' = Rebind(alias, variable)
    /\ adds' = adds + 1
    /\ UNCHANGED <<fc, mrv, dh, constraints, var_constr_dict, splits, pc, stack,
                   assigned, result, stats, returned, ret_live, ret_snap,
                   solves, commits, tried, prev, input, solution, default_cons>>

\* a second Problem is set up as the first was, with forward checking on
rebuild ==
    /\ pc = "idle"
    /\ solves = 1
    /\ ~fc
    /\ prev.solution = "none"
    /\ prev' = [solution |-> solution, returned |-> returned, splits |-> stats]
    /\ fc' = TRUE
    /\ variables' = input.variables
    /\ alias' = input.alias
    /\ var_constr_dict' = [v \in DOMAIN input.variables |-> <<>>]
    /\ splits' = 0
    /\ solves' = 0
    /\ stats' = 0
    /\ result' = "none"
    /\ solution' = "none"
    /\ returned' = input.variables
    /\ ret_snap' = input.variables
    /\ ret_live' = FALSE
    /\ UNCHANGED <<mrv, dh, constraints, pc, stack, assigned, commits, tried,
                   adds, input, default_cons>>

(***************************************************************************)
(* The caller setting the Problem up, before the first getSolution         *)
(***************************************************************************)
\* Problem.addVariable(variable, domain): the dict gets or overwrites a key;
\* a constraint whose const_vars is that dict sees the new key
setup_addVariable ==
    /\ pc = "idle"
    /\ solves = 0
    /\ \E variable \in Vars, domain \in Tails :
        LET store == [v \in DOMAIN variables \cup {variable} |->
                         IF v = variable THEN domain ELSE variables[v]]
            lists == [v \in DOMAIN store |-> v]
        IN  /\ variables' = store
            /\ alias' = lists
            /\ constraints' = [i \in 1..Len(constraints) |->
                                  IF i \in default_cons THEN Keys(store)
                                                        ELSE constraints[i]]
            /\ var_constr_dict' = [v \in DOMAIN store |-> <<>>]
            /\ returned' = store
            /\ ret_snap' = store
            /\ prev' = [prev EXCEPT !.returned = store]
            /\ input' = [variables |-> store, alias |-> lists]
    /\ UNCHANGED <<fc, mrv, dh, splits, pc, stack, assigned, result, stats,
                   ret_live, solves, commits, tried, adds, solution, default_cons>>

\* Problem.addConstraint(constrained_variables): with no argument const_vars
\* is the dict Problem.variables itself, else it is the caller's list
addConstraint ==
    /\ pc = "idle"
    /\ solves = 0
    /\ Len(constraints) < MaxConstraints
    /\ \/ /\ constraints' = Append(constraints, Keys(variables))
          /\ default_cons' = default_cons \cup {Len(constraints) + 1}
       \/ /\ \E S \in SUBSET DOMAIN variables :
                /\ Cardinality(S) >= 2
                /\ constraints' = Append(constraints, SetToSeq(S))
          /\ UNCHANGED default_cons
    /\ UNCHANGED <<fc, mrv, dh, variables, alias, var_constr_dict, splits, pc,
                   stack, assigned, result, stats, returned, ret_live, ret_snap,
                   solves, commits, tried, adds, prev, input, solution>>

Next ==
    \/ getSolution
    \/ backtrack
    \/ try_value
    \/ check_candidate
    \/ exhausted
    \/ after_recursion
    \/ finish

Spec == Init /\ [][Next]_vars

\* the control point of a call of getSolution that has not returned moves on
Moves ==
    /\ pc # "idle"
    /\ pc' \in {"backtrack", "loop", "check", "return", "idle"}

\* a call of getSolution is run to its end: the interpreter does not stop
\* inside it.  Every step of the solver but the hand-over of a found
\* assignment to the caller's frame changes pc, and that hand-over pops a
\* frame, so a call that takes steps for ever moves its control point for ever
SpecLive ==
    /\ (InitGrid \/ InitLatin)
    /\ [][Next]_vars
    /\ WF_pc(Moves)

\* the same problems, with a caller that goes on using the Problem
NextCaller ==
    \/ Next
    \/ resolve
    \/ addVariable

SpecCaller == InitShared /\ [][NextCaller]_vars

\* a Problem set up call by call and then solved
NextSetup ==
    \/ Next
    \/ setup_addVariable
    \/ addConstraint

SpecSetup == InitEmpty /\ [][NextSetup]_vars

\* the problems that were registered with addVariables, solved once
SpecShared == InitBulk /\ [][Next]_vars

\* one grid solved without and then with forward checking
InitPair == InitGrid /\ ~fc

NextPair ==
    \/ Next
    \/ rebuild

SpecPair == InitPair /\ [][NextPair]_vars

(***************************************************************************)
(* Vocabulary of the properties                                            *)
(***************************************************************************)
\* getSolution has returned to its caller
Returned == pc = "idle" /\ solves >= 1

\* two identifiers of one constraint
SharePairs == {p \in (DOMAIN variables) \X (DOMAIN variables) :
                 /\ p[1] # p[2]
                 /\ \E i \in 1..Len(constraints) :
                        Contains(constraints[i], p[1]) /\ Contains(constraints[i], p[2])}

\* no two variables of a common constraint hold the same value
AllDifferent(store) ==
    \A p \in SharePairs : Range(store[p[1]]) \cap Range(store[p[2]]) = {}

\* the variables that were set up as singletons do not clash
InitialSingletonsConsistent ==
    \A p \in SharePairs :
        (Len(input.variables[p[1]]) = 1 /\ Len(input.variables[p[2]]) = 1)
            => input.variables[p[1]] # input.variables[p[2]]

\* two variables of one constraint were set up with the same single value
OverConstrained ==
    \E p \in SharePairs :
        Len(input.variables[p[1]]) = 1 /\ input.variables[p[1]] = input.variables[p[2]]

\* the assignments of the problem as set up that satisfy every constraint
\* (identifiers are 1..n, so an assignment is a sequence of n values)
RECURSIVE Extensions(_, _, _)
Extensions(cands, pairs, k) ==
    IF k = 0 THEN {<<>>}
    ELSE UNION {{Append(s, x) : x \in {y \in cands[k] :
                                   \A p \in pairs :
                                       (p[1] = k /\ p[2] < k) => s[p[2]] # y}} :
                s \in Extensions(cands, pairs, k - 1)}

Solutions ==
    Extensions([v \in DOMAIN input.variables |-> Range(input.variables[v])],
               SharePairs, Cardinality(DOMAIN input.variables))

AsStore(f) == [v \in DOMAIN f |-> <<f[v]>>]

(***************************************************************************)
(* C1: with forward checking disabled, a branch attempt leaves the domain  *)
(* of every variable other than the branched one unchanged up to the       *)
(* consistency check.                                                      *)
(***************************************************************************)
C1_NoPropagationWithoutFC ==
    [][(pc = "loop" /\ pc' = "check" /\ ~fc) =>
          \A v \in DOMAIN variables :
              v # Top.unassigned => variables'[v] = variables[v]]_vars

(***************************************************************************)
(* C2: a problem in which two variables of one constraint were set up with *)
(* the same single value makes getSolution return False, whatever the      *)
(* flags.                                                                  *)
(***************************************************************************)
C2_OverConstrainedFails ==
    (Returned /\ OverConstrained) => solution = "False"

(***************************************************************************)
(* C3: when the initial singletons are pairwise consistent, an assignment  *)
(* returned by getSolution has no two variables of a common constraint     *)
(* with the same value.                                                    *)
(***************************************************************************)
C3_SolutionAllDifferent ==
    (Returned /\ solution = "dict" /\ InitialSingletonsConsistent)
        => AllDifferent(returned)

(***************************************************************************)
(* C4: for a problem with non-aliased domains that has a satisfying        *)
(* assignment, getSolution returns an assignment under every flag          *)
(* configuration, and with a unique solution and all heuristics off it     *)
(* returns exactly that solution.                                          *)
(***************************************************************************)
C4_Exhaustive ==
    (Returned /\ NoAlias(input.alias)) =>
        /\ solution # "dict" => Solutions = {}
        /\ (~fc /\ ~mrv /\ ~dh /\ Cardinality(Solutions) = 1)
              => \E f \in Solutions : returned = AsStore(f)

\* a unique solution was found after a candidate had been rejected and a
\* committed branch had been abandoned
C4_Witness ==
    /\ Returned /\ NoAlias(input.alias) /\ Cardinality(Solutions) = 1
    /\ ~fc /\ ~mrv /\ ~dh
    /\ solution = "dict"
    /\ tried > commits
    /\ commits > Cardinality({v \in DOMAIN input.variables :
                                 Len(input.variables[v]) > 1})

(***************************************************************************)
(* C5: the assignment getSolution returned is a snapshot: no later         *)
(* operation on the Problem (addVariable, a further getSolution) changes   *)
(* it.                                                                     *)
(***************************************************************************)
C5_ReturnedIsSnapshot ==
    solution = "dict" => ReturnedView = returned

(***************************************************************************)
(* C6: the splits value of the returned Statistics is the number of        *)
(* step-4d events (candidate passed the check, search recursed) of that    *)
(* solve and is at most the number of candidates tried in that solve, also *)
(* when getSolution is called again on the same Problem.                   *)
(***************************************************************************)
C6_SplitsCountCommits ==
    Returned => (stats = commits /\ stats <= tried)

(***************************************************************************)
(* C7: an assignment returned by getSolution has a domain of length        *)
(* exactly 1 for every variable.                                           *)
(***************************************************************************)
C7_AllSingletons ==
    (Returned /\ solution = "dict")
        => \A v \in DOMAIN returned : Len(returned[v]) = 1

\* an assignment was returned after branching on several variables and
\* rejecting a candidate
C7_Witness ==
    /\ Returned /\ solution = "dict"
    /\ commits >= 2
    /\ tried > commits
    /\ \E v \in DOMAIN returned : Len(input.variables[v]) = MaxVal

(***************************************************************************)
(* C8: for a problem with a unique solution, the run with forward checking *)
(* on returns the same assignment as the run with forward checking off     *)
(* (other flags equal), and its splits count is not larger.                *)
(***************************************************************************)
C8_SameAssignmentFewerSplits ==
    (Returned /\ prev.solution # "none" /\ Cardinality(Solutions) = 1) =>
        /\ solution = prev.solution
        /\ returned = prev.returned
        /\ stats <= prev.splits

(***************************************************************************)
(* C9: with MRV and the degree heuristic both enabled, the variable        *)
(* branched on has the minimum domain size among the unassigned variables  *)
(* and, among those of that size, the fewest unassigned constraint         *)
(* neighbours counted over the whole unassigned set, ties broken by        *)
(* identifier order.                                                       *)
(***************************************************************************)
CombinedChoice(store, vcd) ==
    LET u == Unassigned(store)
        m == Min({Len(store[v]) : v \in Range(u)})
    IN  FirstSorted({<<Cardinality(c_list(v, u, vcd)), v>> :
                        v \in {w \in Range(u) : Len(store[w]) = m}})

C9_CombinedHeuristic ==
    (mrv /\ dh /\ pc = "loop" /\ Top.idx = 0)
        => Top.unassigned = CombinedChoice(Top.copy_variables, var_constr_dict)

(***************************************************************************)
(* C10: for a constraint c whose variables are all singletons in the       *)
(* store, check is true for SOME variable of c iff the values of c are     *)
(* pairwise distinct.                                                      *)
(***************************************************************************)
AllSingleton(c) == \A v \in Range(c) : Len(variables[v]) = 1

PairwiseDistinct(c) ==
    \A a, b \in Range(c) : a # b => variables[a] # variables[b]

C10_SomeVariable ==
    \A i \in 1..Len(constraints) :
        AllSingleton(constraints[i]) =>
            ((\E v \in Range(constraints[i]) : check(variables, constraints[i], v))
                <=> PairwiseDistinct(constraints[i]))

\* C10 as amended: check is true for EVERY variable of c iff the values of
\* c are pairwise distinct.
C10_EveryVariable ==
    \A i \in 1..Len(constraints) :
        AllSingleton(constraints[i]) =>
            ((\A v \in Range(constraints[i]) : check(variables, constraints[i], v))
                <=> PairwiseDistinct(constraints[i]))

\* the candidate under check closes a constraint in which one variable
\* passes check although two others clash
C10_Witness ==
    /\ pc = "check"
    /\ \E i \in 1..Len(constraints) :
        /\ AllSingleton(constraints[i])
        /\ ~PairwiseDistinct(constraints[i])
        /\ \E v \in Range(constraints[i]) : check(variables, constraints[i], v)
        /\ \E k \in 1..Len(assigned) : Contains(constraints[i], assigned[k])

(***************************************************************************)
(* C11: whole-store propagation is idempotent: once the propagation with   *)
(* an empty seed list has returned, running it again on the resulting      *)
(* store leaves every domain unchanged.                                    *)
(***************************************************************************)
C11_PropagationIdempotent ==
    (pc = "backtrack" /\ stack = <<>> /\ fc) =>
        update_domains(variables, alias, var_constr_dict, <<>>).variables = variables

(***************************************************************************)
(* C12: for a 2x2 Latin-square-style problem (values 1 and 2, one row      *)
(* constraint and one column constraint) with one cell given and forward   *)
(* checking on, getSolution returns the unique remaining assignment, found *)
(* by forward checking alone, and reports 0 splits.                        *)
(***************************************************************************)
ByForwardCheckingAlone ==
    /\ solution = "dict"
    /\ stats = 0
    /\ tried = 0
    /\ \E f \in Solutions : Solutions = {f} /\ returned = AsStore(f)

C12_OneRowOneColumn ==
    (/\ Returned /\ fc
     /\ input.variables \in LatinStores
     /\ constraints \in {<<r, c>> : r \in Range(LatinRows), c \in Range(LatinColumns)})
        => ByForwardCheckingAlone

\* C12 as amended: every row and every column of the square is a constraint.
C12_AllRowsAllColumns ==
    (/\ Returned /\ fc
     /\ input.variables \in LatinStores
     /\ constraints = LatinRows \o LatinColumns)
        => ByForwardCheckingAlone

\* the full square was solved with forward checking on
C12_Witness ==
    /\ Returned /\ fc
    /\ input.variables \in LatinStores
    /\ constraints = LatinRows \o LatinColumns
    /\ solution = "dict"

(***************************************************************************)
(* C13: the variable list of a constraint is fixed when the constraint is  *)
(* made: no later call (addVariable in particular) changes which variables *)
(* a constraint covers, also for a constraint made by addConstraint() with *)
(* no argument.                                                            *)
(***************************************************************************)
C13_ConstraintFixed ==
    [][/\ Len(constraints') >= Len(constraints)
       /\ \A i \in 1..Len(constraints) : constraints'[i] = constraints[i]]_vars

(***************************************************************************)
(* C14: snapshot and restore isolate the attempts of one branch point:     *)
(* every candidate value is tried on a store equal to the snapshot taken   *)
(* on entry, whether the candidate before it failed the check or its       *)
(* recursion failed, and a backtrack call that fails leaves the store as   *)
(* it was when the call was entered.                                       *)
(***************************************************************************)
\* the store the backtrack call that has just returned was entered with:
\* the outermost call gets the store getSolution prepared, an inner call the
\* store its caller had propagated for the current candidate
EntryStore ==
    IF stack = <<>>
    THEN IF fc THEN update_domains(input.variables, input.alias,
                                   var_constr_dict, <<>>).variables
               ELSE input.variables
    ELSE update_domains(
            [Top.copy_variables EXCEPT ![Top.unassigned] = <<Top.domain[Top.idx]>>],
            Rebind(Top.copy_alias, Top.unassigned),
            var_constr_dict, <<Top.unassigned>>).variables

C14_SnapshotRestore ==
    /\ pc = "loop" => variables = Top.copy_variables
    /\ (pc = "return" /\ result = "False") => variables = EntryStore

\* a recursion has failed and its caller has a further candidate to try
C14_Witness ==
    /\ pc = "return" /\ result = "False"
    /\ stack # <<>>
    /\ Top.idx < Len(Top.domain)
    /\ variables # Top.copy_variables

(***************************************************************************)
(* C15: when a propagation call returns, its assigned list holds the seeds *)
(* and every variable the call reduced to one value, each once; each of    *)
(* them has a singleton domain, and its value is in the domain of no       *)
(* variable of a common constraint that still has more than one value.     *)
(***************************************************************************)
\* list is the assigned list a call returned with the store, before is the
\* store the call was given and seeds is its work-list at the start
CascadeDone(list, store, before, seeds) ==
    /\ \A i, j \in 1..Len(list) : i # j => list[i] # list[j]
    /\ Range(list) = seeds \cup {v \in DOMAIN store :
                                    Len(before[v]) # 1 /\ Len(store[v]) = 1}
    /\ \A i \in 1..Len(list) : Len(store[list[i]]) = 1
    /\ \A i \in 1..Len(list) : \A p \in SharePairs :
          (p[1] = list[i] /\ Len(store[p[2]]) > 1)
              => ~Contains(store[p[2]], store[list[i]][1])

EqualSingletons(store) ==
    \E p \in SharePairs : Len(store[p[1]]) = 1 /\ store[p[1]] = store[p[2]]

C16_NeverEmpty ==
    /\ \A v \in DOMAIN variables : Len(variables[v]) >= 1
    /\ \A k \in 1..Len(stack) :
          \A v \in DOMAIN variables : Len(stack[k].copy_variables[v]) >= 1
    /\ (pc = "check" /\ ~check_assignment(variables, var_constr_dict, assigned))
          => EqualSingletons(variables)

\* a dead branch: propagation has removed values and the check fails
C16_Witness ==
    /\ pc = "check"
    /\ ~check_assignment(variables, var_constr_dict, assigned)
    /\ \E v \in DOMAIN variables :
          v # Top.unassigned /\ Len(variables[v]) < Len(Top.copy_variables[v])

(***************************************************************************)
(* C17: the list the search passes to check_assignment starts with the     *)
(* branched variable, and every variable in it has a domain of length 1    *)
(* when the check runs.                                                    *)
(***************************************************************************)
C17_CheckedAreSingletons ==
    pc = "check" =>
        /\ Len(assigned) >= 1
        /\ assigned[1] = Top.unassigned
        /\ \A i \in 1..Len(assigned) : Len(variables[assigned[i]]) = 1

\* the check is about to run on the branched variable and a cascaded one
C17_Witness ==
    /\ pc = "check"
    /\ Len(assigned) >= 2
    /\ Len(Top.copy_variables[assigned[2]]) > 1

(***************************************************************************)
(* C18: with MRV on and the degree heuristic off, the variable a branch    *)
(* point selects is unassigned, no unassigned variable has a smaller       *)
(* domain, and among those of the same size it has the least identifier.   *)
(***************************************************************************)
C18_MinimumRemainingValues ==
    (mrv /\ ~dh /\ pc = "loop" /\ Top.idx = 0) =>
        LET store == Top.copy_variables
            x == Top.unassigned
        IN  /\ Len(store[x]) > 1
            /\ \A v \in DOMAIN store :
                  Len(store[v]) > 1 =>
                      \/ Len(store[x]) < Len(store[v])
                      \/ Len(store[x]) = Len(store[v]) /\ x <= v

\* MRV passed over an earlier variable with a larger domain and broke a tie
C18_Witness ==
    /\ mrv /\ ~dh /\ pc = "loop" /\ Top.idx = 0
    /\ \E v \in DOMAIN variables :
          v < Top.unassigned /\ Len(Top.copy_variables[v]) > Len(variables[Top.unassigned])
    /\ \E v \in DOMAIN variables :
          v > Top.unassigned /\ Len(Top.copy_variables[v]) = Len(variables[Top.unassigned])

(***************************************************************************)
(* C19: getSolution, once called, returns under every flag configuration:  *)
(* a nested backtrack call has strictly fewer unassigned variables than    *)
(* its caller, a branch point makes at most one try per candidate value,   *)
(* and with both heuristics on the size scan has an unassigned variable to *)
(* find.                                                                   *)
(***************************************************************************)
\* the store the k-th nested call of backtrack was entered with, and the
\* store a call about to be made is entered with
CalleeStore(k) == IF k < Len(stack) THEN stack[k + 1].copy_variables ELSE variables

StrictDescent ==
    \A k \in 1..Len(stack) :
        (k < Len(stack) \/ pc = "backtrack") =>
            Len(Unassigned(CalleeStore(k))) < Len(Unassigned(stack[k].copy_variables))

OneTryPerCandidate ==
    \A k \in 1..Len(stack) :
        stack[k].idx <= Len(stack[k].copy_variables[stack[k].unassigned])

ScanFinds ==
    (mrv /\ dh /\ pc = "loop") =>
        \E size \in 2..MaxVal : \E v \in DOMAIN variables :
            Len(Top.copy_variables[v]) = size

\* at each control point of an active call one step of the solver applies
NeverStuck ==
    /\ pc \in {"loop", "check"} => Len(stack) > 0
    /\ pc \in {"idle", "backtrack", "loop", "check", "return"}

C19_GetSolutionReturns ==
    /\ [](StrictDescent /\ OneTryPerCandidate /\ ScanFinds /\ NeverStuck)
    /\ (pc = "backtrack" /\ stack = <<>>) ~> Returned

\* a search that went two calls deep, exhausted a branch point and returned
C19_Witness ==
    /\ Returned
    /\ mrv /\ dh
    /\ solution = "False"
    /\ tried >= 4
    /\ commits >= 1

(***************************************************************************)
(* C20: variables registered together with addVariables have independent   *)
(* domains: a propagation pass, at the start of getSolution or after a      *)
(* candidate is assigned, before or after a snapshot restore, leaves every  *)
(* domain as it would with a list of its own for every variable.            *)
(***************************************************************************)
OwnLists == [v \in DOMAIN variables |-> v]

C20_IndependentDomains ==
    [][/\ (pc = "idle" /\ pc' = "backtrack" /\ fc) =>
              variables' = update_domains(variables, OwnLists,
                                          var_constr_dict', <<>>).variables
       /\ (pc = "loop" /\ pc' = "check") =>
              variables' =
                  update_domains(
                      [variables EXCEPT ![Top.unassigned] = <<Top.domain[Top.idx + 1]>>],
                      OwnLists, var_constr_dict, <<Top.unassigned>>).variables]_vars

====
